---- MODULE Spec2Model ----
(***************************************************************************)
(* Glass Rejection Dashboard (src/glass.py): a Streamlit script that loads *)
(* the "AllData" worksheet, derives temporal columns, renders four         *)
(* aggregate views and two issue listings, exports an Excel report with    *)
(* charts, and appends new entries to the worksheet.                       *)
(*                                                                         *)
(* Text is modelled by TLA+ strings, taken apart character by character    *)
(* with Len / SubSeq and put together with \o.  Dates are records          *)
(* [y, m, d]; NaT is the record of zeros.  NaN / <NA> / None are negative  *)
(* sentinels compared with pandas' semantics (never equal to anything).    *)
(***************************************************************************)
EXTENDS Integers, Sequences, FiniteSets, TLC

VARIABLES
    sheet,      \* rows of worksheet "AllData" below the header (12 text cells each)
    pc,         \* the script run: "start", "ready" (data loaded), "shown", "crashed"
    df,         \* the DataFrame of this run (sequence of row records)
    error,      \* the exception that ended the run ("" when none)
    view,       \* what the section that ran last rendered
    form,       \* values held by the widgets of the New Entry Form
    widgetMsg,  \* validation message of the Qty widget ("" when none)
    last,       \* what the last press of "Submit Entry" did
    emails      \* notification emails sent (each the row it reports)

vars == <<sheet, pc, df, error, view, form, widgetMsg, last, emails>>

-----------------------------------------------------------------------------
(* Bounds of the model *)

MaxRows == 3        \* rows of a worksheet drawn from RowPool
MaxTypeRows == 6    \* rows of a worksheet drawn from TypePool
MaxEdits == 1       \* edits of the form's widgets in one behaviour
MaxSubmits == 2     \* presses of "Submit Entry" in one behaviour
MaxQty == 2         \* largest quantity typed into the Qty widget

-----------------------------------------------------------------------------
(* Text *)

CharAt(s, i) == SubSeq(s, i, i)

\* The characters of a text, as a tuple.
Chars(s) == [i \in 1..Len(s) |-> CharAt(s, i)]

UpperChars == Chars("ABCDEFGHIJKLMNOPQRSTUVWXYZ")
LowerChars == Chars("abcdefghijklmnopqrstuvwxyz")
DigitChars == Chars("0123456789")
\* Characters in code-point order (the part of ASCII the data uses).
Collation == Chars(" #-.0123456789ABCDEFGHIJKLMNOPQRSTUVWXYZabcdefghijklmnopqrstuvwxyz")

\* Position of character c in alphabet a (0 when absent).
IndexIn(a, c) ==
    IF \E i \in 1..Len(a) : a[i] = c
    THEN CHOOSE i \in 1..Len(a) : a[i] = c
    ELSE 0

LowerChar(c) ==
    IF IndexIn(UpperChars, c) > 0 THEN LowerChars[IndexIn(UpperChars, c)] ELSE c

RECURSIVE StrLower(_)
\* str.lower()
StrLower(s) ==
    IF s = "" THEN "" ELSE LowerChar(CharAt(s, 1)) \o StrLower(SubSeq(s, 2, Len(s)))

IsDigits(s) == s # "" /\ \A i \in 1..Len(s) : IndexIn(DigitChars, CharAt(s, i)) > 0

RECURSIVE ParseInt(_)
\* int(s) for a text of decimal digits
ParseInt(s) ==
    IF s = "" THEN 0
    ELSE 10 * ParseInt(SubSeq(s, 1, Len(s) - 1)) + (IndexIn(DigitChars, CharAt(s, Len(s))) - 1)

RECURSIVE Str(_)
\* str(n) for n >= 0
Str(n) == IF n < 10 THEN DigitChars[n + 1] ELSE Str(n \div 10) \o DigitChars[(n % 10) + 1]

RECURSIVE ZeroPad(_, _)
\* a number zero-padded on the left to width w (%Y, %m, %d)
ZeroPad(n, w) == IF Len(Str(n)) >= w THEN Str(n) ELSE "0" \o ZeroPad(n, w - 1)

RECURSIVE StrLess(_, _)
\* s < t for Python strings (code-point order)
StrLess(s, t) ==
    IF t = "" THEN FALSE
    ELSE IF s = "" THEN TRUE
    ELSE LET a == IndexIn(Collation, CharAt(s, 1))
             b == IndexIn(Collation, CharAt(t, 1))
         IN  IF a # b THEN a < b
             ELSE StrLess(SubSeq(s, 2, Len(s)), SubSeq(t, 2, Len(t)))

-----------------------------------------------------------------------------
(* Dates *)

NaT == [y |-> 0, m |-> 0, d |-> 0]
NaN == -1       \* float NaN / pd.NA: equal to nothing, itself included
None == -2      \* the value of a radio with no options

IsLeap(y) == (y % 4 = 0) /\ ((y % 100 # 0) \/ (y % 400 = 0))

DaysInMonth(y, m) ==
    IF m = 2 THEN (IF IsLeap(y) THEN 29 ELSE 28)
    ELSE IF m \in {4, 6, 9, 11} THEN 30 ELSE 31

DaysBeforeYear(y) == (y - 1) * 365 + ((y - 1) \div 4) - ((y - 1) \div 100) + ((y - 1) \div 400)

RECURSIVE DaysBeforeMonth(_, _)
DaysBeforeMonth(y, m) == IF m = 1 THEN 0 ELSE DaysBeforeMonth(y, m - 1) + DaysInMonth(y, m - 1)

\* proleptic Gregorian ordinal, 0001-01-01 = 1
Ordinal(dt) == DaysBeforeYear(dt.y) + DaysBeforeMonth(dt.y, dt.m) + dt.d

\* Monday = 0 .. Sunday = 6
Weekday(ord) == (ord + 6) % 7

\* ordinal of the Monday that starts ISO week 1 of year y
IsoWeek1Monday(y) ==
    LET firstDay == DaysBeforeYear(y) + 1
        firstWeekday == Weekday(firstDay)
        monday == firstDay - firstWeekday
    IN  IF firstWeekday > 3 THEN monday + 7 ELSE monday

\* date.isocalendar().week
IsoWeek(dt) ==
    LET today == Ordinal(dt)
        week == (today - IsoWeek1Monday(dt.y)) \div 7
    IN  IF today < IsoWeek1Monday(dt.y)
        THEN ((today - IsoWeek1Monday(dt.y - 1)) \div 7) + 1
        ELSE IF week >= 52 /\ today >= IsoWeek1Monday(dt.y + 1) THEN 1
        ELSE week + 1

MonthNames == <<"January", "February", "March", "April", "May", "June", "July",
                "August", "September", "October", "November", "December">>

\* date.strftime("%B")
MonthName(dt) == MonthNames[dt.m]

\* date.strftime("%Y-%m-%d")
Strftime(dt) == ZeroPad(dt.y, 4) \o "-" \o ZeroPad(dt.m, 2) \o "-" \o ZeroPad(dt.d, 2)

\* pd.to_datetime(cell, errors="coerce"): a YYYY-MM-DD text is parsed, any
\* other cell of the worksheets considered here becomes NaT.
ToDatetime(cell) ==
    IF /\ Len(cell) = 10
       /\ CharAt(cell, 5) = "-" /\ CharAt(cell, 8) = "-"
       /\ IsDigits(SubSeq(cell, 1, 4)) /\ IsDigits(SubSeq(cell, 6, 7))
       /\ IsDigits(SubSeq(cell, 9, 10))
    THEN LET y == ParseInt(SubSeq(cell, 1, 4))
             m == ParseInt(SubSeq(cell, 6, 7))
             d == ParseInt(SubSeq(cell, 9, 10))
         IN  IF y >= 1 /\ m \in 1..12 /\ d >= 1 /\ d <= DaysInMonth(y, m)
             THEN [y |-> y, m |-> m, d |-> d]
             ELSE NaT
    ELSE NaT

\* Series.dt.year
DtYear(dt) == IF dt = NaT THEN NaN ELSE dt.y

\* Series.dt.to_period("Q").astype(str): the text of NaT is "NaT"
DtQuarter(dt) == IF dt = NaT THEN "NaT" ELSE Str(dt.y) \o "Q" \o Str(((dt.m - 1) \div 3) + 1)

\* Series.dt.isocalendar().week
DtWeek(dt) == IF dt = NaT THEN NaN ELSE IsoWeek(dt)

-----------------------------------------------------------------------------
(* The worksheet and the DataFrame *)

\* Header row of worksheet "AllData": the columns of the row the form appends.
Header == <<"Week#", "Date", "Month", "Year", "Size", "Thickness",
            "Type", "Reason", "Qty", "Vendor", "SO", "Dept.">>

\* df.columns after preprocessing: the header, then the added "Quarter".
Columns == Header \o <<"Quarter">>

\* Zero-based position of a column (col_map).
ColIndex(c) == (CHOOSE i \in 1..Len(Columns) : Columns[i] = c) - 1

\* The text cell of worksheet row `row` under header `c`.
Cell(row, c) == row[CHOOSE i \in 1..Len(Header) : Header[i] = c]

\* gspread's numericise: a cell of decimal digits is read as an integer.
Numericise(cell) == IF IsDigits(cell) THEN ParseInt(cell) ELSE cell

\* numericise followed by Series.astype(str)
AsTypeStr(cell) == IF IsDigits(cell) THEN Str(ParseInt(cell)) ELSE cell

\* One row of df after lines 32-42: the record get_all_records() built from
\* the worksheet row at position i, with Date parsed, Year / Quarter / Week#
\* derived from it, and Reason / Type coerced to text.  "index" is the row's
\* pandas index label.
PreprocessRow(row, i) ==
    LET date == ToDatetime(Cell(row, "Date"))
    IN  [c \in {"index"} \cup {Columns[k] : k \in 1..Len(Columns)} |->
            CASE c = "index"   -> i - 1
              [] c = "Date"    -> date
              [] c = "Year"    -> DtYear(date)
              [] c = "Quarter" -> DtQuarter(date)
              [] c = "Week#"   -> DtWeek(date)
              [] c = "Reason"  -> AsTypeStr(Cell(row, "Reason"))
              [] c = "Type"    -> AsTypeStr(Cell(row, "Type"))
              [] c = "Qty"     -> Numericise(Cell(row, "Qty"))
              [] OTHER         -> Cell(row, c)]

\* df after preprocessing a worksheet with at least one data row.
Preprocess(rows) == [i \in 1..Len(rows) |-> PreprocessRow(rows[i], i)]

\* pandas ==: NaN (and None) equal nothing
YearEq(a, b) == a >= 0 /\ b >= 0 /\ a = b

RECURSIVE SumQty(_)
\* Series.sum() of column Qty
SumQty(rows) == IF rows = <<>> THEN 0 ELSE rows[1]["Qty"] + SumQty(Tail(rows))

RECURSIVE SortInts(_)
SortInts(S) ==
    IF S = {} THEN <<>>
    ELSE LET m == CHOOSE x \in S : \A y \in S : x <= y
         IN  <<m>> \o SortInts(S \ {m})

RECURSIVE SortStrs(_)
SortStrs(S) ==
    IF S = {} THEN <<>>
    ELSE LET m == CHOOSE x \in S : \A y \in S \ {x} : StrLess(x, y)
         IN  <<m>> \o SortStrs(S \ {m})

\* The rows of a frame whose column c equals k, in frame order.
RowsWith(rows, c, k) == SelectSeq(rows, LAMBDA r : r[c] = k)

\* Variant: .first() in place of .sum().
GroupByTextFirst(rows, c) ==
    LET keys == SortStrs({rows[i][c] : i \in 1..Len(rows)})
    IN  [j \in 1..Len(keys) |-> [key |-> keys[j], Qty |-> RowsWith(rows, c, keys[j])[1]["Qty"]]]

\* groupby(c)["Qty"].sum().reset_index() for a text column: one row per
\* distinct key, keys in sorted order.
GroupByText(rows, c) ==
    LET keys == SortStrs({rows[i][c] : i \in 1..Len(rows)})
    IN  [j \in 1..Len(keys) |-> [key |-> keys[j], Qty |-> SumQty(RowsWith(rows, c, keys[j]))]]

\* Variant: groupby(c, sort=False), the keys in order of first appearance.
GroupByIntUnsorted(rows, c) ==
    LET seen == SelectSeq([i \in 1..Len(rows) |-> rows[i][c]], LAMBDA k : k # NaN)
        keys == SelectSeq([i \in 1..Len(seen) |-> IF \E j \in 1..(i - 1) : seen[j] = seen[i]
                                                  THEN NaN ELSE seen[i]],
                          LAMBDA k : k # NaN)
    IN  [j \in 1..Len(keys) |-> [key |-> keys[j], Qty |-> SumQty(RowsWith(rows, c, keys[j]))]]

\* The same for an integer column; groupby drops the rows whose key is <NA>.
GroupByInt(rows, c) ==
    LET keys == SortInts({rows[i][c] : i \in 1..Len(rows)} \ {NaN})
    IN  [j \in 1..Len(keys) |-> [key |-> keys[j], Qty |-> SumQty(RowsWith(rows, c, keys[j]))]]

\* df[df["Year"] == y]
OfYear(rows, y) == SelectSeq(rows, LAMBDA r : YearEq(r["Year"], y))

\* df["Year"].unique(): NaN is one of the values when a date did not parse
YearValues(rows) == {rows[i]["Year"] : i \in 1..Len(rows)}

\* The values a year radio can return: one of its options, None without any.
RadioValues(options) == IF options = {} THEN {None} ELSE options

-----------------------------------------------------------------------------
(* The sections of the dashboard *)

TopN == 5

View(section, sel, data, extra) ==
    [section |-> section, sel |-> sel, data |-> data, extra |-> extra]

NoView == View("none", None, <<>>, <<>>)

\* weekly = df_week.groupby("Week#")["Qty"].sum().reset_index()
WeeklyData(rows, y) == GroupByInt(OfYear(rows, y), "Week#")

\* reason_data = df_reason.groupby("Reason")["Qty"].sum().reset_index()
ReasonData(rows, y) == GroupByText(OfYear(rows, y), "Reason")

RECURSIVE FirstSeen(_, _)
\* The distinct values of column c in order of first appearance.
FirstSeen(rows, c) ==
    IF rows = <<>> THEN <<>>
    ELSE LET before == FirstSeen(SubSeq(rows, 1, Len(rows) - 1), c)
             v == rows[Len(rows)][c]
         IN  IF \E i \in 1..Len(before) : before[i] = v THEN before ELSE Append(before, v)

\* Number of rows whose column c is v.
CountOf(rows, c, v) == Cardinality({i \in 1..Len(rows) : rows[i][c] = v})

RECURSIVE SortByCountDesc(_, _, _)
\* The values vals ordered by falling count, equal counts in their given order.
SortByCountDesc(vals, rows, c) ==
    IF vals = <<>> THEN <<>>
    ELSE LET rest == SortByCountDesc(SubSeq(vals, 1, Len(vals) - 1), rows, c)
             v == vals[Len(vals)]
             n == CountOf(rows, c, v)
             k == Cardinality({i \in 1..Len(rest) : CountOf(rows, c, rest[i]) >= n})
         IN  SubSeq(rest, 1, k) \o <<v>> \o SubSeq(rest, k + 1, Len(rest))

\* Variant: value_counts(sort=False), the values in order of first appearance.
ValueCountsUnsorted(rows, c) == FirstSeen(rows, c)

\* Series.value_counts(): the distinct values, most frequent first.
ValueCounts(rows, c) == SortByCountDesc(FirstSeen(rows, c), rows, c)

\* .nlargest(n).index.tolist() of a value_counts() result
NLargest(vals, n) == SubSeq(vals, 1, IF Len(vals) < n THEN Len(vals) ELSE n)

\* top_types = df[df["Year"] == y]["Type"].value_counts().nlargest(5).index.tolist()
TopTypes(rows, y) == NLargest(ValueCounts(OfYear(rows, y), "Type"), TopN)

\* df_type = df[(df["Year"] == y) & (df["Type"].isin(top_types))]
TypeRows(rows, y, top) ==
    SelectSeq(rows, LAMBDA r : YearEq(r["Year"], y) /\ \E i \in 1..Len(top) : top[i] = r["Type"])

\* type_data = df_type.groupby("Type")["Qty"].sum().reset_index()
TypeData(rows, y) == GroupByText(TypeRows(rows, y, TopTypes(rows, y)), "Type")

\* valid_quarters (line 82)
ValidQuarters ==
    {Str(y) \o "Q" \o Str(i) : y \in {2024, 2025}, i \in 1..4} \
        {Str(2025) \o "Q" \o Str(i) : i \in 3..4}

\* df_q = df[df["Quarter"] == selected_q]
OfQuarter(rows, q) == SelectSeq(rows, LAMBDA r : r["Quarter"] = q)

\* dept_data = df_q.groupby("Dept.")["Qty"].sum().reset_index()
DeptData(rows, q) == GroupByText(OfQuarter(rows, q), "Dept.")

DateKey(dt) == IF dt = NaT THEN 0 ELSE Ordinal(dt)

RECURSIVE SortByDateDesc(_)
\* sort_values(by="Date", ascending=False): latest first, NaT last
SortByDateDesc(rows) ==
    IF rows = <<>> THEN <<>>
    ELSE LET rest == SortByDateDesc(SubSeq(rows, 1, Len(rows) - 1))
             r == rows[Len(rows)]
             k == Cardinality({i \in 1..Len(rest) :
                        DateKey(rest[i]["Date"]) >= DateKey(r["Date"])})
         IN  SubSeq(rest, 1, k) \o <<r>> \o SubSeq(rest, k + 1, Len(rest))

\* df_scratch = df[(df["Reason"].str.lower() == "scratched") & (df["Year"] == y)]
ScratchRows(rows, y) ==
    SelectSeq(rows, LAMBDA r : StrLower(r["Reason"]) = "scratched" /\ YearEq(r["Year"], y))

\* df_prod = df[(df["Reason"] == "production issue") & (df["Year"] == y)]
ProdRows(rows, y) ==
    SelectSeq(rows, LAMBDA r : r["Reason"] = "production issue" /\ YearEq(r["Year"], y))

-----------------------------------------------------------------------------
(* The Excel report *)

\* df.to_excel(writer, sheet_name="AllData", index=False): row 0 holds the
\* column names, row i the i-th row of df; a cell is addressed (row, col),
\* both zero-based.
ToExcel(rows) ==
    [r \in 0..Len(rows) |->
        [c \in 0..(Len(Columns) - 1) |->
            IF r = 0 THEN Columns[c + 1] ELSE rows[r][Columns[c + 1]]]]

\* create_chart: one series, categories and values bound to cell ranges
\* [sheet, first_row, first_col, last_row, last_col] of sheet "AllData".
CreateChart(rows, chartType, title, categoryCol, valueCol, position) ==
    [type |-> chartType, name |-> title, position |-> position,
     categories |-> <<"AllData", 1, categoryCol, Len(rows), categoryCol>>,
     values |-> <<"AllData", 1, valueCol, Len(rows), valueCol>>]

\* The workbook the "Generate Excel Report" button writes.
ExcelReport(rows) ==
    [AllData |-> ToExcel(rows),
     Charts |-> <<
        CreateChart(rows, "column", "Weekly Rejections", ColIndex("Week#"), ColIndex("Qty"), "A1"),
        CreateChart(rows, "bar", "Rejections by Reason", ColIndex("Reason"), ColIndex("Qty"), "A20"),
        CreateChart(rows, "bar", "Rejections by Glass Type", ColIndex("Type"), ColIndex("Qty"), "A39"),
        CreateChart(rows, "pie", "Rejections by Department", ColIndex("Dept."), ColIndex("Qty"), "A58")>>]

\* The cells of a range of one column, top to bottom.
RangeCells(grid, range) ==
    [i \in 1..(range[4] - range[2] + 1) |-> grid[range[2] + i - 1][range[3]]]

\* The (category, value) points a chart's series plots.
ChartPoints(book, chart) ==
    LET cats == RangeCells(book.AllData, chart.categories)
        vals == RangeCells(book.AllData, chart.values)
    IN  [i \in 1..Len(cats) |-> [key |-> cats[i], Qty |-> vals[i]]]

-----------------------------------------------------------------------------
(* The New Entry Form *)

Date(y, m, d) == [y |-> y, m |-> m, d |-> d]

QtyMin == 1

\* Options of the radio widgets (lines 157-163).
RadioOptions ==
    [thickness  |-> {"3", "4", "5", "6", "Other"},
     glass_type |-> {"Clear", "Lowe", "Tempered", "Tinted"},
     reason     |-> {"Broken", "Missing", "Defective", "Production Issue",
                     "Scratched", "Wrong Size", "Other"},
     vendor     |-> {"Cardinal", "Woodbridge"},
     dept       |-> {"Patio Doors", "Other"}]

\* Texts typed into the free-text widgets.
TextInputs == [size |-> {"", "24x36"}, so |-> {"", "SO-7"}]

\* Dates picked in the date widget.
DatePool == {Date(2024, 12, 30), Date(2021, 1, 3), Date(2024, 3, 7), Date(2026, 11, 2)}

\* The widgets' values on the first run: each radio on its first option, the
\* texts empty, Qty on its minimum, Date on today's date.  "typed" is the
\* number last typed into the Qty box, "edits" counts the user's edits.
DefaultForm(today) ==
    [date |-> today, size |-> "", thickness |-> "3", glass_type |-> "Clear",
     reason |-> "Broken", qty |-> QtyMin, vendor |-> "Cardinal", so |-> "",
     dept |-> "Patio Doors", typed |-> QtyMin, edits |-> 0]

\* Variant: the date written DD-MM-YY.
NewRowShortDate(f) ==
    <<Str(IsoWeek(f.date)),
      ZeroPad(f.date.d, 2) \o "-" \o ZeroPad(f.date.m, 2) \o "-" \o ZeroPad(f.date.y % 100, 2),
      MonthName(f.date), Str(f.date.y),
      f.size, f.thickness, f.glass_type, f.reason, Str(f.qty), f.vendor, f.so, f.dept>>

\* new_row (lines 166-184)
NewRow(f) ==
    <<Str(IsoWeek(f.date)), Strftime(f.date), MonthName(f.date), Str(f.date.y),
      f.size, f.thickness, f.glass_type, f.reason, Str(f.qty), f.vendor, f.so, f.dept>>

NoSubmit == [n |-> 0, before |-> 0, form |-> DefaultForm(NaT), row |-> <<>>,
             appended |-> FALSE, emailed |-> FALSE, message |-> ""]

-----------------------------------------------------------------------------
(* Worksheets the model starts from *)

\* A worksheet row as an earlier entry left it.
RawRow(date, type, reason, qty, dept) ==
    LET dt == ToDatetime(date)
    IN  <<IF dt = NaT THEN "" ELSE Str(IsoWeek(dt)), date,
          IF dt = NaT THEN "" ELSE MonthName(dt),
          IF dt = NaT THEN "" ELSE Str(dt.y),
          "24x36", "3", type, reason, qty, "Cardinal", "", dept>>

RowPool ==
    { RawRow("2024-01-01", "Clear",    "Scratched",         "2",  "Patio Doors"),
      RawRow("2024-03-27", "Clear",    " scratched ",       "3",  "Patio Doors"),
      RawRow("2024-03-27", "Lowe",     "SCRATCHED",         "1",  "Other"),
      RawRow("2024-12-30", "Lowe",     "Production Issue",  "5",  "Other"),
      RawRow("2025-06-30", "Clear",    "production issue",  "1",  "Patio Doors"),
      RawRow("2025-01-01", "Tempered", " production issue ", "2",  "Other"),
      RawRow("2024-01-01", "Tinted",   "PRODUCTION ISSUE",  "1",  "Patio Doors"),
      RawRow("2024-03-27", "Clear",    "scratched",         "10", "Other"),
      RawRow("abc",        "Clear",    "Scratched",         "7",  "Patio Doors"),
      RawRow("",           "Lowe",     "Broken",            "1",  "Other") }

\* The weekly example: weeks 1, 1, 13, 13, 13, 52 of 2024.
WeeklyExample ==
    << RawRow("2024-01-01", "Clear", "Broken", "2",  "Other"),
       RawRow("2024-01-03", "Clear", "Broken", "3",  "Other"),
       RawRow("2024-03-27", "Clear", "Broken", "5",  "Other"),
       RawRow("2024-03-25", "Clear", "Broken", "1",  "Other"),
       RawRow("2024-03-31", "Clear", "Broken", "1",  "Other"),
       RawRow("2024-12-23", "Clear", "Broken", "10", "Other") >>

TypeNames == <<"Clear", "Lowe", "Tempered", "Tinted", "Laminated", "Frosted">>

\* One row per glass type, all of 2024; the k-th type is rejected k at a time.
TypePool == {RawRow("2024-03-27", TypeNames[k], "Broken", Str(k), "Other") : k \in 1..Len(TypeNames)}

SeqsUpTo(S, n) == UNION {[1..k -> S] : k \in 0..n}

\* The glass-type example: types A, A, A, B, B, C, D, E, F, and the same
\* rows latest first.
TypesExample ==
    [i \in 1..9 |-> RawRow("2024-03-27", TypeNames[<<1, 1, 1, 2, 2, 3, 4, 5, 6>>[i]],
                           "Broken", "1", "Other")]

TypesExampleReversed == [i \in 1..9 |-> TypesExample[10 - i]]

\* Worksheets of at most MaxTypeRows rows of TypePool, at most one of them
\* repeating an earlier row.
TypeSheets ==
    {s \in SeqsUpTo(TypePool, MaxTypeRows) :
        Len(s) - Cardinality({s[i] : i \in 1..Len(s)}) <= 1}

Today == Date(2026, 11, 2)

InitWith(rows, today) ==
    /\ sheet = rows
    /\ pc = "start"
    /\ df = <<>>
    /\ error = ""
    /\ view = NoView
    /\ form = DefaultForm(today)
    /\ widgetMsg = ""
    /\ last = NoSubmit
    /\ emails = <<>>

\* Dashboard runs: every worksheet of at most MaxRows rows of RowPool, and
\* the weekly example.
Init == \E rows \in SeqsUpTo(RowPool, MaxRows) \cup {WeeklyExample} : InitWith(rows, Today)

\* Glass-type runs: the worksheets of RowPool, those of TypePool, and the
\* glass-type example in both orders.
InitTop ==
    \E rows \in SeqsUpTo(RowPool, MaxRows) \cup TypeSheets
                    \cup {TypesExample, TypesExampleReversed} : InitWith(rows, Today)

\* Form runs: a worksheet of one earlier row, the form opened on some day.
FormSheet == <<RawRow("2024-01-01", "Clear", "Scratched", "2", "Patio Doors")>>

InitForm == InitWith(FormSheet, Today)

-----------------------------------------------------------------------------
(* One run of the script *)

\* Lines 30-42: read the worksheet and preprocess.  get_all_records() of a
\* worksheet without data rows is [], pd.DataFrame([]) has no columns, and
\* df["Date"] raises KeyError: the run ends there.
LoadData ==
    /\ pc = "start"
    /\ IF sheet = <<>>
       THEN /\ df' = <<>>
            /\ error' = "KeyError: 'Date'"
            /\ pc' = "crashed"
       ELSE /\ df' = Preprocess(sheet)
            /\ error' = ""
            /\ pc' = "ready"
    /\ view' = NoView
    /\ UNCHANGED <<sheet, form, widgetMsg, last, emails>>

\* A section of the page renders v; the page stays as shown until the next run.
Render(v) ==
    /\ pc = "ready"
    /\ view' = v
    /\ pc' = "shown"
    /\ UNCHANGED <<sheet, df, error, form, widgetMsg, last, emails>>

\* Lines 50-61
Weekly ==
    \E y \in RadioValues(YearValues(df) \ {NaN}) :
        Render(View("weekly", y, WeeklyData(df, y), <<>>))

\* Lines 63-69
ByReason ==
    \E y \in RadioValues(YearValues(df)) :
        Render(View("reason", y, ReasonData(df, y), <<>>))

\* Lines 71-78
ByType ==
    \E y \in RadioValues(YearValues(df)) :
        Render(View("type", y, TypeData(df, y), TopTypes(df, y)))

\* Lines 80-90: the pie chart, or the warning when the quarter has no rows
ByDept ==
    \E q \in ValidQuarters :
        Render(View("dept", q,
                    IF OfQuarter(df, q) # <<>> THEN DeptData(df, q) ELSE <<>>,
                    IF OfQuarter(df, q) # <<>> THEN "chart" ELSE "warning"))

\* Lines 94-130: line 119 recomputes Week# from Date, which changes nothing
Export == Render(View("export", None, ExcelReport(df), <<>>))

\* Lines 137-141
Scratched ==
    \E y \in RadioValues(YearValues(df)) :
        Render(View("scratched", y, SortByDateDesc(ScratchRows(df, y)), <<>>))

\* Lines 143-148
ProductionIssue ==
    \E y \in RadioValues(YearValues(df)) :
        Render(View("production", y, SortByDateDesc(ProdRows(df, y)), <<>>))

\* st_autorefresh, or any interaction: the script runs again from the top.
Rerun ==
    /\ pc \in {"ready", "shown", "crashed"}
    /\ pc' = "start"
    /\ df' = <<>>
    /\ error' = ""
    /\ view' = NoView
    /\ UNCHANGED <<sheet, form, widgetMsg, last, emails>>

Next ==
    \/ LoadData
    \/ Weekly
    \/ ByReason
    \/ ByType
    \/ ByDept
    \/ Export
    \/ Scratched
    \/ ProductionIssue
    \/ Rerun

Spec == Init /\ [][Next]_vars

NextTop == LoadData \/ ByType \/ Rerun

SpecTop == InitTop /\ [][NextTop]_vars

-----------------------------------------------------------------------------
(* The New Entry Form: the widgets and the Submit Entry button *)

FormShown == pc \in {"ready", "shown"}

Edit(f) ==
    /\ FormShown
    /\ form.edits < MaxEdits
    /\ form' = [f EXCEPT !.edits = form.edits + 1]
    /\ UNCHANGED <<sheet, pc, df, error, view, last, emails>>

\* st.date_input("Date"): the widget always holds a date
PickDate ==
    \E d \in DatePool \ {form.date} :
        /\ Edit([form EXCEPT !.date = d])
        /\ UNCHANGED widgetMsg

\* The radio widgets
PickOption ==
    \E w \in DOMAIN RadioOptions : \E v \in RadioOptions[w] \ {form[w]} :
        /\ Edit([form EXCEPT ![w] = v])
        /\ UNCHANGED widgetMsg

\* The text widgets
TypeText ==
    \E w \in DOMAIN TextInputs : \E v \in TextInputs[w] \ {form[w]} :
        /\ Edit([form EXCEPT ![w] = v])
        /\ UNCHANGED widgetMsg

\* Variant: the Qty widget without min_value.
TypeQtyUnchecked ==
    \E v \in 0..MaxQty :
        /\ Edit([form EXCEPT !.typed = v, !.qty = v])
        /\ widgetMsg' = ""

\* st.number_input("Qty", step=1, min_value=1): a number below the minimum
\* is refused with the widget's validation message and the value stays.
TypeQty ==
    \E v \in 0..MaxQty :
        IF v < QtyMin
        THEN /\ Edit([form EXCEPT !.typed = v])
             /\ widgetMsg' = "Value must be greater than or equal to 1"
        ELSE /\ Edit([form EXCEPT !.typed = v, !.qty = v])
             /\ widgetMsg' = ""

Recipients == <<"ragavan.ramachandran@kvcustomwd.com", "ning.ma@kvcustomwd.com">>

\* The notification (lines 195-208): one table line per (column, value)
\* pair of zip(df.columns, new_row).
Email(row) ==
    [to |-> Recipients, subject |-> "New Glass Rejection Submitted",
     body |-> [i \in 1..(IF Len(Columns) < Len(row) THEN Len(Columns) ELSE Len(row)) |->
                    <<Columns[i], row[i]>>]]

Success == "Submitted and emailed successfully!"
Failure == "Submission failed"

Pressed(appended, emailed, message) ==
    [n |-> last.n + 1, before |-> Len(sheet), form |-> form, row |-> NewRow(form),
     appended |-> appended, emailed |-> emailed, message |-> message]

\* Lines 170-218.  sheet.append_row may raise (nothing is appended), and so
\* may any step of sending the email, which runs after the row is appended;
\* the handler catches either and reports the failure.
SubmitEntry ==
    /\ FormShown
    /\ last.n < MaxSubmits
    /\ \/ /\ last' = Pressed(FALSE, FALSE, Failure)
          /\ UNCHANGED <<sheet, emails>>
       \/ /\ sheet' = Append(sheet, NewRow(form))
          /\ last' = Pressed(TRUE, FALSE, Failure)
          /\ UNCHANGED emails
       \/ /\ sheet' = Append(sheet, NewRow(form))
          /\ emails' = Append(emails, Email(NewRow(form)))
          /\ last' = Pressed(TRUE, TRUE, Success)
    /\ UNCHANGED <<pc, df, error, view, form, widgetMsg>>

NextForm ==
    \/ LoadData
    \/ PickDate
    \/ PickOption
    \/ TypeText
    \/ TypeQty
    \/ SubmitEntry

\* One run of the page on the form tab: the data is loaded once, the user
\* edits the widgets and presses the button.
SpecForm == InitForm /\ [][NextForm]_vars

-----------------------------------------------------------------------------
(* Vocabulary of the properties *)

Loaded == pc \in {"ready", "shown"}

Rows == 1..Len(df)

\* The rows of df whose Year equals the selected year.
InYear(y) == {i \in Rows : df[i]["Year"] = y /\ y # NaN /\ y # None}

RECURSIVE QtyOver(_)
\* Sum of Qty over a set of rows of df.
QtyOver(S) ==
    IF S = {} THEN 0
    ELSE LET i == CHOOSE j \in S : TRUE IN df[i]["Qty"] + QtyOver(S \ {i})

RECURSIVE QtyOfTable(_)
\* Sum of the Qty column of an aggregate.
QtyOfTable(t) == IF t = <<>> THEN 0 ELSE t[1].Qty + QtyOfTable(Tail(t))

\* An aggregate has one entry per key of the rows S under column c, and each
\* entry holds the summed Qty of the rows of S with that key.
AggregateOf(t, S, c) ==
    /\ \A a, b \in 1..Len(t) : t[a].key = t[b].key => a = b
    /\ {t[a].key : a \in 1..Len(t)} = {df[i][c] : i \in S}
    /\ \A a \in 1..Len(t) : t[a].Qty = QtyOver({i \in S : df[i][c] = t[a].key})

RECURSIVE LStrip(_)
LStrip(s) == IF s # "" /\ CharAt(s, 1) = " " THEN LStrip(SubSeq(s, 2, Len(s))) ELSE s

RECURSIVE RStrip(_)
RStrip(s) == IF s # "" /\ CharAt(s, Len(s)) = " " THEN RStrip(SubSeq(s, 1, Len(s) - 1)) ELSE s

\* A reason as the filters are to compare it: trimmed and lowercased.
Normalised(s) == StrLower(RStrip(LStrip(s)))

\* The index labels of the rows a listing shows.
Listed == {view.data[k]["index"] : k \in 1..Len(view.data)}

\* The missing value of a text column.
NullText == "<NA>"

\* The worksheet row i holds a date that does not parse.
Unparseable(i) == ToDatetime(Cell(sheet[i], "Date")) = NaT

\* The ISO week of a date, by the standard's rule: the week belongs to the
\* year that holds its Thursday, and is numbered by that Thursday.
WeekOfThursday(dt) ==
    LET thursday == Ordinal(dt) - Weekday(Ordinal(dt)) + 3
        year == CHOOSE y \in (dt.y - 1)..(dt.y + 1) :
                    DaysBeforeYear(y) < thursday /\ thursday <= DaysBeforeYear(y + 1)
    IN  ((thursday - DaysBeforeYear(year) - 1) \div 7) + 1

-----------------------------------------------------------------------------
(* Properties *)

\* C1: the Qty values of the by-reason aggregate of a year add up to the Qty
\* of all records of that year, each reason once with the summed Qty of its
\* records: no quantity is dropped and none is counted twice.
C1_ReasonSumsConserveQty ==
    view.section = "reason" =>
        /\ QtyOfTable(view.data) = QtyOver(InYear(view.sel))
        /\ AggregateOf(view.data, InYear(view.sel), "Reason")

\* A year with two reasons, one of them on two records, is aggregated.
C1_Witness ==
    /\ view.section = "reason"
    /\ Len(view.data) >= 2
    /\ \E a \in 1..Len(view.data) :
          Cardinality({i \in InYear(view.sel) : df[i]["Reason"] = view.data[a].key}) >= 2

\* C2: the scratched and production-issue listings of a year show every
\* record of that year whose Reason, trimmed and lowercased, is the filter's.
C2_ReasonFiltersNormalise ==
    /\ view.section = "scratched" =>
          \A i \in InYear(view.sel) :
              Normalised(df[i]["Reason"]) = "scratched" => df[i]["index"] \in Listed
    /\ view.section = "production" =>
          \A i \in InYear(view.sel) :
              Normalised(df[i]["Reason"]) = "production issue" => df[i]["index"] \in Listed

\* C3: a record whose Date does not parse stays in the record set, has null
\* Year, Quarter and Week#, and adds to no weekly, by-reason, by-type or
\* by-department aggregate, whatever the selector shows.
C3_UnparseableDatesAreNull ==
    Loaded =>
        /\ Len(df) = Len(sheet)
        /\ \A i \in Rows : Unparseable(i) =>
              /\ df[i]["Year"] = NaN
              /\ df[i]["Week#"] = NaN
              /\ df[i]["Quarter"] = NullText
        /\ view.section \in {"weekly", "reason", "type"} =>
              \A i \in Rows : Unparseable(i) => i \notin InYear(view.sel)
        /\ view.section = "dept" =>
              \A i \in Rows : Unparseable(i) => df[i]["Quarter"] # view.sel

\* The part of C3 the script keeps: the record stays, Year and Week# are
\* null, and no aggregate counts it (its Quarter is the text "NaT", which no
\* quarter of the selector equals).
C3_UnparseableDatesExcluded ==
    Loaded =>
        /\ Len(df) = Len(sheet)
        /\ \A i \in Rows : Unparseable(i) =>
              /\ df[i]["Year"] = NaN
              /\ df[i]["Week#"] = NaN
              /\ df[i]["Date"] = NaT
        /\ view.section \in {"weekly", "reason"} =>
              QtyOfTable(view.data) = QtyOver({i \in InYear(view.sel) : ~Unparseable(i)})
        /\ view.section = "type" =>
              QtyOfTable(view.data) <= QtyOver({i \in InYear(view.sel) : ~Unparseable(i)})
        /\ view.section = "dept" =>
              QtyOfTable(view.data) =
                  QtyOver({i \in Rows : ~Unparseable(i) /\ df[i]["Quarter"] = view.sel})

\* The points of chart k of the report are the aggregate of df by column c:
\* as many points as keys, and every (key, summed Qty) among them.
ChartShows(k, t) ==
    LET points == ChartPoints(view.data, view.data.Charts[k])
    IN  /\ Len(points) = Len(t)
        /\ \A a \in 1..Len(t) : \E b \in 1..Len(points) : points[b] = t[a]

\* C4: each of the four charts of the Excel report plots the corresponding
\* aggregate of the record set: one category per distinct key, its value
\* that key's summed Qty.
C4_ChartsPlotAggregates ==
    view.section = "export" =>
        /\ ChartShows(1, GroupByInt(df, "Week#"))
        /\ ChartShows(2, GroupByText(df, "Reason"))
        /\ ChartShows(3, GroupByText(df, "Type"))
        /\ ChartShows(4, GroupByText(df, "Dept."))

\* The glass types of the records of a year.
TypesIn(y) == {df[i]["Type"] : i \in InYear(y)}

TypeCount(y, t) == Cardinality({i \in InYear(y) : df[i]["Type"] = t})

\* C5: the top-types selection of a year holds min(5, distinct types of the
\* year) types, none counted on fewer records than a type left out, and the
\* by-type aggregate holds exactly the selected types with their summed Qty.
C5_TopTypes ==
    view.section = "type" =>
        LET top == {view.extra[k] : k \in 1..Len(view.extra)}
            all == TypesIn(view.sel)
        IN  /\ Len(view.extra) = Cardinality(top)
            /\ top \subseteq all
            /\ Cardinality(top) = (IF Cardinality(all) < 5 THEN Cardinality(all) ELSE 5)
            /\ \A t \in top : \A u \in all \ top : TypeCount(view.sel, t) >= TypeCount(view.sel, u)
            /\ AggregateOf(view.data, {i \in InYear(view.sel) : df[i]["Type"] \in top}, "Type")

\* Six types in the year, the two most frequent entered last: they are
\* selected, and one type seen on a single record is left out.
C5_Witness ==
    /\ view.section = "type"
    /\ sheet = TypesExampleReversed
    /\ Cardinality(TypesIn(view.sel)) = 6
    /\ Len(view.extra) = 5
    /\ view.extra[1] = "Clear" /\ view.extra[2] = "Lowe"
    /\ Len(view.data) = 5

\* The rows the form has appended to the worksheet.
Submitted == (Len(FormSheet) + 1)..Len(sheet)

ValidEntry(row) ==
    /\ IsDigits(Cell(row, "Qty")) /\ ParseInt(Cell(row, "Qty")) >= 1
    /\ ToDatetime(Cell(row, "Date")) # NaT

WeeklyExampleData == <<[key |-> 1, Qty |-> 5], [key |-> 13, Qty |-> 7], [key |-> 52, Qty |-> 10]>>

\* C7: the weekly aggregate of a year has one entry per ISO week of the
\* year's records, each the summed Qty of that week's records, in strictly
\* ascending week order; weeks 1, 1, 13, 13, 13, 52 with Qty 2, 3, 5, 1, 1, 10
\* give (1, 5), (13, 7), (52, 10).
C7_WeeklyAscending ==
    view.section = "weekly" =>
        /\ AggregateOf(view.data, InYear(view.sel), "Week#")
        /\ \A i \in InYear(view.sel) : df[i]["Week#"] = WeekOfThursday(df[i]["Date"])
        /\ \A a, b \in 1..Len(view.data) : a < b => view.data[a].key < view.data[b].key
        /\ (sheet = WeeklyExample /\ view.sel = 2024) => view.data = WeeklyExampleData

\* The weekly chart of the example worksheet is drawn for 2024.
C7_Witness ==
    /\ view.section = "weekly"
    /\ sheet = WeeklyExample
    /\ view.sel = 2024
    /\ Len(view.data) = 3

\* C8: with no records in the worksheet the run does not raise: preprocessing,
\* the aggregates and the export complete on the empty record set.
C8_EmptyRunCompletes ==
    sheet = <<>> => (error = "" /\ pc # "crashed")

\* C9: the row handed to append_row has the 12 fields week, date, month, year,
\* size, thickness, glass type, reason, qty, vendor, SO, dept: the ISO week,
\* the date as YYYY-MM-DD, the full month name, the 4-digit year and the qty
\* as text, the other fields as entered.
C9_RowShape ==
    last.n > 0 =>
        LET r == last.row
            f == last.form
        IN  /\ Len(r) = 12
            /\ IsDigits(r[1]) /\ ParseInt(r[1]) = WeekOfThursday(f.date) /\ r[1] = Str(ParseInt(r[1]))
            /\ Len(r[2]) = 10 /\ CharAt(r[2], 5) = "-" /\ CharAt(r[2], 8) = "-"
            /\ IsDigits(SubSeq(r[2], 1, 4)) /\ ParseInt(SubSeq(r[2], 1, 4)) = f.date.y
            /\ IsDigits(SubSeq(r[2], 6, 7)) /\ ParseInt(SubSeq(r[2], 6, 7)) = f.date.m
            /\ IsDigits(SubSeq(r[2], 9, 10)) /\ ParseInt(SubSeq(r[2], 9, 10)) = f.date.d
            /\ r[3] = MonthNames[f.date.m]
            /\ IsDigits(r[4]) /\ Len(r[4]) = 4 /\ ParseInt(r[4]) = f.date.y
            /\ r[5] = f.size /\ r[6] = f.thickness /\ r[7] = f.glass_type /\ r[8] = f.reason
            /\ IsDigits(r[9]) /\ ParseInt(r[9]) = f.qty /\ r[9] = Str(f.qty)
            /\ r[10] = f.vendor /\ r[11] = f.so /\ r[12] = f.dept
            /\ last.appended => (Len(sheet) > last.before /\ sheet[last.before + 1] = r)

\* An entry dated 2024-12-30, in ISO week 1 of 2025, is appended as week
\* "1" of year "2024", month "December".
C9_Witness ==
    /\ last.n > 0 /\ last.appended
    /\ last.form.date = Date(2024, 12, 30)
    /\ sheet[Len(sheet)][1] = "1"
    /\ sheet[Len(sheet)][2] = "2024-12-30"
    /\ sheet[Len(sheet)][3] = "December"
    /\ sheet[Len(sheet)][4] = "2024"

\* C10: a submission reports success only when the row was appended and the
\* email sent, and when it reports failure the worksheet holds no row of it.
C10_AllOrNothing ==
    /\ last.message = Success =>
          /\ last.appended /\ last.emailed
          /\ Len(sheet) > last.before /\ sheet[last.before + 1] = last.row
    /\ last.message = Failure => Len(sheet) = last.before

====
